---- MODULE Spec2Model ----
(***************************************************************************)
(* State-machine model of src/src/CustomGPTSchemaGenerator.tsx: the React  *)
(* component CustomGPTSchemaGenerator, its useState cells, the memoised    *)
(* derivation of the output document, the list mutators and the two export *)
(* handlers.                                                               *)
(*                                                                         *)
(* Text is modelled as a sequence of one-character strings, so that        *)
(* String.prototype.trim and Number(text) are computed, not assumed.       *)
(***************************************************************************)
EXTENDS Integers, Sequences, FiniteSets, TLC

(***************************************************************************)
(* Bounds of the model.                                                    *)
(***************************************************************************)
\* longest text-valued list (documents, phrases, starters, samples, tags)
MaxLen == 3
\* longest customActions list
MaxActions == 2
\* last instant of the clock read by new Date()
MaxClock == 2
\* longest retention text enumerated over RetentionAlphabet
MaxRetLen == 2
\* most clipboard writes in flight at once
MaxInflight == 1
\* most handler invocations in a session of SpecSession
MaxSteps == 2

(***************************************************************************)
(* Text helpers.                                                           *)
(***************************************************************************)
\* white space as String.prototype.trim and StringToNumber see it
IsSpace(c) == c \in {" ", "\t", "\n"}

RECURSIVE TrimStart(_)
TrimStart(s) == IF s /= <<>> /\ IsSpace(Head(s)) THEN TrimStart(Tail(s)) ELSE s

RECURSIVE TrimEnd(_)
TrimEnd(s) ==
    IF s /= <<>> /\ IsSpace(s[Len(s)]) THEN TrimEnd(SubSeq(s, 1, Len(s) - 1)) ELSE s

\* s.trim()
Trim(s) == TrimEnd(TrimStart(s))

\* !s : the empty string is the only falsy string
Falsy(s) == s = <<>>

\* all texts over alphabet A of length at most n
RECURSIVE TextsUpTo(_, _)
TextsUpTo(A, n) ==
    IF n = 0 THEN {<<>>}
    ELSE LET shorter == TextsUpTo(A, n - 1)
         IN  shorter \cup {Append(t, c) : t \in shorter, c \in A}

(***************************************************************************)
(* Number(text), x || 0 and Math.max(0, x).  A number is                   *)
(*   [kind |-> "nan"], [kind |-> "inf", neg], or                           *)
(*   [kind |-> "num", neg, m, k]  standing for  (-1)^neg * m / 10^k        *)
(* with k the count of fraction digits left after dropping trailing zeros. *)
(* Exponent, hexadecimal, octal and binary literals are outside the        *)
(* enumerated inputs.                                                      *)
(***************************************************************************)
Digits == {"0", "1", "2", "3", "4", "5", "6", "7", "8", "9"}

DigitVal(c) ==
    CASE c = "0" -> 0 [] c = "1" -> 1 [] c = "2" -> 2 [] c = "3" -> 3 [] c = "4" -> 4
      [] c = "5" -> 5 [] c = "6" -> 6 [] c = "7" -> 7 [] c = "8" -> 8 [] c = "9" -> 9

RECURSIVE DigitsValue(_)
DigitsValue(s) ==
    IF s = <<>> THEN 0
    ELSE 10 * DigitsValue(SubSeq(s, 1, Len(s) - 1)) + DigitVal(s[Len(s)])

RECURSIVE DropTrailingZeros(_)
DropTrailingZeros(s) ==
    IF s /= <<>> /\ s[Len(s)] = "0" THEN DropTrailingZeros(SubSeq(s, 1, Len(s) - 1)) ELSE s

AllDigits(s) == \A i \in 1..Len(s) : s[i] \in Digits

NaN == [kind |-> "nan", neg |-> FALSE, m |-> 0, k |-> 0]
Zero == [kind |-> "num", neg |-> FALSE, m |-> 0, k |-> 0]
Infinity(neg) == [kind |-> "inf", neg |-> neg, m |-> 0, k |-> 0]
InfinityText == <<"I", "n", "f", "i", "n", "i", "t", "y">>

\* StrUnsignedDecimalLiteral without exponent: digits, digits. , digits.digits , .digits
UnsignedDecimal(body, neg) ==
    LET dots == {i \in 1..Len(body) : body[i] = "."}
    IN  IF dots = {}
        THEN IF body /= <<>> /\ AllDigits(body)
             THEN [kind |-> "num", neg |-> neg, m |-> DigitsValue(body), k |-> 0]
             ELSE NaN
        ELSE IF Cardinality(dots) > 1 THEN NaN
        ELSE LET d == CHOOSE i \in dots : TRUE
                 int == SubSeq(body, 1, d - 1)
                 frac == SubSeq(body, d + 1, Len(body))
                 sig == DropTrailingZeros(frac)
             IN  IF AllDigits(int) /\ AllDigits(frac) /\ Len(int) + Len(frac) > 0
                 THEN [kind |-> "num", neg |-> neg,
                       m |-> DigitsValue(int \o sig), k |-> Len(sig)]
                 ELSE NaN

\* Number(text): StringToNumber of the trimmed text
ToNumber(s) ==
    LET t == Trim(s)
    IN  IF t = <<>> THEN Zero
        ELSE LET signed == Head(t) \in {"+", "-"}
                 neg == Head(t) = "-"
                 body == IF signed THEN Tail(t) ELSE t
             IN  IF body = InfinityText THEN Infinity(neg)
                 ELSE UnsignedDecimal(body, neg)

\* x || 0 : NaN, +0 and -0 are the falsy numbers
OrZero(x) == IF x.kind = "nan" \/ (x.kind = "num" /\ x.m = 0) THEN Zero ELSE x

\* Math.max(0, x)
MaxWithZero(x) == IF x.kind = "nan" THEN NaN ELSE IF x.neg THEN Zero ELSE x

\* Math.max(0, Number(retention) || 0)
RetentionDaysDropsClamp(text) == OrZero(ToNumber(text))
RetentionDays(text) == MaxWithZero(OrZero(ToNumber(text)))

IsNegative(x) == x.kind \in {"num", "inf"} /\ x.neg /\ (x.kind = "inf" \/ x.m > 0)
IsNonNegativeInteger(x) == x.kind = "num" /\ ~x.neg /\ x.k = 0

(***************************************************************************)
(* Defaults (defaultConfig) and the inputs the handlers are driven with.   *)
(***************************************************************************)
DigitChar(d) ==
    CASE d = 0 -> "0" [] d = 1 -> "1" [] d = 2 -> "2" [] d = 3 -> "3" [] d = 4 -> "4"
      [] d = 5 -> "5" [] d = 6 -> "6" [] d = 7 -> "7" [] d = 8 -> "8" [] d = 9 -> "9"

\* String(n) for a natural number n
RECURSIVE NatToText(_)
NatToText(n) == IF n < 10 THEN <<DigitChar(n)>> ELSE Append(NatToText(n \div 10), DigitChar(n % 10))

defaultConfig ==
    [schemaVersion |-> "1.0",
     name |-> <<"U", "n", "t", "i", "t", "l", "e", "d", " ", "C", "u", "s", "t", "o", "m",
                " ", "G", "P", "T">>,
     description |-> <<>>,
     instructions |-> <<"Y", "o", "u", " ", "a", "r", "e", " ", "a", " ", "h", "e", "l",
                        "p", "f", "u", "l", " ", "a", "s", "s", "i", "s", "t", "a", "n",
                        "t", ".">>,
     language |-> <<"e", "n">>,
     persona |-> [writingTone |-> "friendly", emojiUse |-> "light",
                  responseLength |-> "medium"],
     builtInTools |-> <<"web">>,
     customActions |-> <<>>,
     knowledge |-> [enabled |-> FALSE, documents |-> <<>>],
     memory |-> [enabled |-> FALSE, scope |-> "user", dataRetentionDays |-> 180],
     safety |-> [jailbreakDefense |-> TRUE, blockDisallowedContent |-> TRUE,
                 piiRedaction |-> FALSE, customDisallowedPhrases |-> <<>>],
     conversationStarters |->
        << [title |-> <<"W", "h", "a", "t", " ", "c", "a", "n", " ", "y", "o", "u", " ",
                        "d", "o", "?">>,
            prompt |-> <<"G", "i", "v", "e", " ", "m", "e", " ", "a", " ", "q", "u", "i",
                         "c", "k", " ", "o", "v", "e", "r", "v", "i", "e", "w", " ", "o",
                         "f", " ", "y", "o", "u", "r", " ", "a", "b", "i", "l", "i", "t",
                         "i", "e", "s", ".">>] >>,
     sampleQuestions |-> << <<"H", "o", "w", " ", "d", "o", " ", "I", " ", "g", "e", "t",
                              " ", "s", "t", "a", "r", "t", "e", "d", "?">> >>,
     tags |-> << <<"s", "t", "a", "r", "t", "e", "r">> >>]

\* cfg.builtInTools?.includes(t) || false
Includes(seq, t) == \E i \in 1..Len(seq) : seq[i] = t

\* the draft a fresh or just-committed action form holds
EmptyActionDraft == [name |-> <<>>, type |-> "openapi", specUrlOrInline |-> <<>>]

\* the option lists of the select controls
ToneOptions == {"casual", "formal", "technical", "friendly", "playful", "neutral"}
EmojiOptions == {"none", "light", "moderate", "heavy"}
LengthOptions == {"short", "medium", "long"}
ScopeOptions == {"conversation", "user"}
ActionTypeOptions == {"openapi", "json-rpc", "graphql", "webhook"}
AuthTypeOptions == {"none", "api_key", "oauth2"}

\* texts typed into the draft inputs of the text-valued lists
DraftTexts == {<<>>, <<" ">>, <<"a">>, <<" ", "b", " ">>}
\* texts typed into the Basic section's inputs
BasicTexts == {<<>>, <<"x">>}
\* texts typed into the action form
ActionNames == {<<" ">>, <<"L", "o", "o", "k", "u", "p">>}
UntrimmedActionNames == {<<" ", "x", " ">>}
ActionTypes == {"openapi", "webhook"}
ActionSpecs == {<<>>, <<"u">>}
ActionAuthTypes == {"api_key"}
ActionAuthInstructions == {<<"i">>}
\* characters of the retention texts enumerated up to MaxRetLen
RetentionAlphabet == {"0", "5", "-", ".", "a", " "}
\* retention texts named by the specification, and the initial one
RetentionSamples ==
    {<<>>, <<"a", "b", "c">>, <<"-", "5">>, <<"3", "0">>, <<"1", ".", "5">>,
     <<"1", "8", "0">>, <<"+", "5", ".", "0">>, <<"I", "n", "f", "i", "n", "i", "t", "y">>}
RetentionTexts == TextsUpTo(RetentionAlphabet, MaxRetLen) \cup RetentionSamples

(***************************************************************************)
(* State.                                                                  *)
(*   st        the useState cells of the component, by their source names  *)
(*   output    the value memoised by useMemo                               *)
(*   now       the clock new Date() reads                                  *)
(*   timer     whether the effect's setTimeout is pending                  *)
(*   inflight  texts handed to navigator.clipboard.writeText, unresolved   *)
(*   clipboard the system clipboard, download the last file offered        *)
(*   mounted   whether the component is mounted                            *)
(* History variables, read by the properties only:                         *)
(*   last      the last step: its handler and argument; for an add, the    *)
(*             list and draft it found; for a remove invoked right after a *)
(*             growing add, at the index of the added element, undo is set *)
(*             and list and draft are what that add found                  *)
(*   copies    the last two Copy JSON exports                              *)
(*   dirty     whether a document field was set since the last Copy JSON   *)
(* Exploration variables, which bound the sessions explored:               *)
(*   section   "form": every control is used; "session": every control is  *)
(*             used, for MaxSteps steps; a list cell: only the controls of *)
(*             that list's editor are used                                 *)
(*   steps     the steps taken so far in a "session"                       *)
(***************************************************************************)
VARIABLES st, output, now, timer, inflight, clipboard, download, mounted,
          last, copies, dirty, steps, section

vars == <<st, output, now, timer, inflight, clipboard, download, mounted,
          last, copies, dirty, steps, section>>

\* the useState cells holding arrays: every setter call installs a new array
ListCells == {"actions", "knowledgeDocs", "customPhrases", "starters", "sampleQs", "tags"}

\* the cells the derivation reads
DocCells ==
    {"name", "description", "instructions", "language", "tone", "emoji", "lengthPref",
     "toolWeb", "toolCode", "toolRetrieval", "toolImage", "toolVision", "actions",
     "knowledgeEnabled", "knowledgeDocs", "memoryEnabled", "memoryScope", "retention",
     "jailbreakDefense", "blockDisallowed", "piiRedaction", "customPhrases", "starters",
     "sampleQs", "tags"}

\* the dependency list of useMemo
MemoDepsWithoutRetention ==
    {"name", "description", "instructions", "language", "tone", "emoji", "lengthPref",
     "toolWeb", "toolCode", "toolRetrieval", "toolImage", "toolVision", "actions",
     "knowledgeEnabled", "knowledgeDocs", "memoryEnabled", "memoryScope",
     "jailbreakDefense", "blockDisallowed", "piiRedaction", "customPhrases", "starters",
     "sampleQs", "tags"}
MemoDeps ==
    {"name", "description", "instructions", "language", "tone", "emoji", "lengthPref",
     "toolWeb", "toolCode", "toolRetrieval", "toolImage", "toolVision", "actions",
     "knowledgeEnabled", "knowledgeDocs", "memoryEnabled", "memoryScope", "retention",
     "jailbreakDefense", "blockDisallowed", "piiRedaction", "customPhrases", "starters",
     "sampleQs", "tags"}

(***************************************************************************)
(* The derivation (the body of useMemo).                                   *)
(***************************************************************************)
\* builtIn: the five conditional pushes, in source order
BuiltInVisionFirst(f) ==
    LET b0 == <<>>
        b1 == IF f.toolWeb THEN Append(b0, "web") ELSE b0
        b2 == IF f.toolVision THEN Append(b1, "vision") ELSE b1
        b3 == IF f.toolCode THEN Append(b2, "code") ELSE b2
        b4 == IF f.toolRetrieval THEN Append(b3, "retrieval") ELSE b3
        b5 == IF f.toolImage THEN Append(b4, "image") ELSE b4
    IN  b5
BuiltIn(f) ==
    LET b0 == <<>>
        b1 == IF f.toolWeb THEN Append(b0, "web") ELSE b0
        b2 == IF f.toolCode THEN Append(b1, "code") ELSE b1
        b3 == IF f.toolRetrieval THEN Append(b2, "retrieval") ELSE b2
        b4 == IF f.toolImage THEN Append(b3, "image") ELSE b3
        b5 == IF f.toolVision THEN Append(b4, "vision") ELSE b4
    IN  b5

\* the object useMemo's callback returns, from cells f at instant t
Derive(f, t) ==
    [schemaVersion |-> "1.0",
     name |-> f.name, description |-> f.description, instructions |-> f.instructions,
     language |-> f.language,
     persona |-> [writingTone |-> f.tone, emojiUse |-> f.emoji,
                  responseLength |-> f.lengthPref],
     builtInTools |-> BuiltIn(f),
     customActions |-> f.actions,
     knowledge |-> [enabled |-> f.knowledgeEnabled, documents |-> f.knowledgeDocs],
     memory |-> [enabled |-> f.memoryEnabled, scope |-> f.memoryScope,
                 dataRetentionDays |-> RetentionDays(f.retention)],
     safety |-> [jailbreakDefense |-> f.jailbreakDefense,
                 blockDisallowedContent |-> f.blockDisallowed,
                 piiRedaction |-> f.piiRedaction,
                 customDisallowedPhrases |-> f.customPhrases],
     conversationStarters |-> f.starters,
     sampleQuestions |-> f.sampleQs,
     tags |-> f.tags,
     createdAt |-> t]

\* useMemo on a render that follows setter calls on the cells in `touched`,
\* the cells going from `old` to `new`: a dependency differs (Object.is) when it
\* is a primitive with another value or an array cell given a new array
MemoAlwaysRecomputes(old, new, touched, cached, t) == Derive(new, t)
Memo(old, new, touched, cached, t) ==
    IF \E c \in MemoDeps \cap touched : c \in ListCells \/ new[c] /= old[c]
    THEN Derive(new, t)
    ELSE cached

\* the effect on [copied]: on a change of copied the cleanup clears a pending
\* timeout and the effect body arms one when copied is true
CopiedEffectNeverArms(was, is, pending) == FALSE
CopiedEffect(was, is, pending) == IF is /= was THEN is ELSE pending

\* JSON.stringify(doc, null, 2), as the document with every leaf replaced by
\* its JSON token: a string by its escaped characters (the text between the
\* quotes), a finite number by its decimal literal, a number that is not
\* finite by null; an absent key stays absent.  Enumeration strings and
\* booleans are written as they are.
JsonNull == [kind |-> "null"]

\* QuoteJSONString, one character
EscapeChar(c) ==
    CASE c = "\"" -> <<"\\", "\"">>
      [] c = "\\" -> <<"\\", "\\">>
      [] c = "\n" -> <<"\\", "n">>
      [] c = "\t" -> <<"\\", "t">>
      [] OTHER -> <<c>>

RECURSIVE Escape(_)
Escape(s) == IF s = <<>> THEN <<>> ELSE EscapeChar(Head(s)) \o Escape(Tail(s))

RECURSIVE PadZeros(_, _)
PadZeros(s, n) == IF Len(s) >= n THEN s ELSE PadZeros(<<"0">> \o s, n)

\* Number::toString of a finite number, in the range written without exponent
NumberToString(x) ==
    LET d == PadZeros(NatToText(x.m), x.k + 1)
        int == SubSeq(d, 1, Len(d) - x.k)
        frac == SubSeq(d, Len(d) - x.k + 1, Len(d))
    IN  (IF x.neg /\ x.m > 0 THEN <<"-">> ELSE <<>>)
            \o int \o (IF x.k > 0 THEN <<".">> \o frac ELSE <<>>)

JsonNumber(x) ==
    IF x.kind = "num" THEN [kind |-> "literal", text |-> NumberToString(x)] ELSE JsonNull

JsonTexts(seq) == [i \in 1..Len(seq) |-> Escape(seq[i])]

JsonAuth(x) == [k \in DOMAIN x |-> IF k = "instructions" THEN Escape(x[k]) ELSE x[k]]

JsonAction(a) ==
    [k \in DOMAIN a |->
        CASE k = "auth" -> JsonAuth(a[k])
          [] k = "type" -> a[k]
          [] OTHER -> Escape(a[k])]

Stringify(doc) ==
    [doc EXCEPT
       !.name = Escape(@), !.description = Escape(@), !.instructions = Escape(@),
       !.language = Escape(@),
       !.customActions = [i \in 1..Len(@) |-> JsonAction(@[i])],
       !.knowledge.documents = JsonTexts(@),
       !.memory.dataRetentionDays = JsonNumber(@),
       !.safety.customDisallowedPhrases = JsonTexts(@),
       !.conversationStarters =
           [i \in 1..Len(@) |-> [title |-> Escape(@[i].title),
                                 prompt |-> Escape(@[i].prompt)]],
       !.sampleQuestions = JsonTexts(@),
       !.tags = JsonTexts(@)]

(***************************************************************************)
(* Initial state: the useState initialisers and the first render.          *)
(***************************************************************************)
InitialCells ==
    LET cfg == defaultConfig
    IN  [name |-> cfg.name, description |-> cfg.description,
         instructions |-> cfg.instructions, language |-> cfg.language,
         tone |-> cfg.persona.writingTone, emoji |-> cfg.persona.emojiUse,
         lengthPref |-> cfg.persona.responseLength,
         toolWeb |-> Includes(cfg.builtInTools, "web"),
         toolCode |-> Includes(cfg.builtInTools, "code"),
         toolRetrieval |-> Includes(cfg.builtInTools, "retrieval"),
         toolImage |-> Includes(cfg.builtInTools, "image"),
         toolVision |-> Includes(cfg.builtInTools, "vision"),
         actions |-> cfg.customActions, actionDraft |-> EmptyActionDraft,
         knowledgeEnabled |-> cfg.knowledge.enabled,
         knowledgeDocs |-> cfg.knowledge.documents, docDraft |-> <<>>,
         memoryEnabled |-> cfg.memory.enabled, memoryScope |-> cfg.memory.scope,
         retention |-> NatToText(IF cfg.memory.dataRetentionDays = 0 THEN 180
                                 ELSE cfg.memory.dataRetentionDays),
         jailbreakDefense |-> cfg.safety.jailbreakDefense,
         blockDisallowed |-> cfg.safety.blockDisallowedContent,
         piiRedaction |-> cfg.safety.piiRedaction,
         customPhrases |-> cfg.safety.customDisallowedPhrases, phraseDraft |-> <<>>,
         starters |-> cfg.conversationStarters, starterTitle |-> <<>>,
         starterPrompt |-> <<>>,
         sampleQs |-> cfg.sampleQuestions, sampleDraft |-> <<>>,
         tags |-> cfg.tags, tagDraft |-> <<>>,
         copied |-> FALSE]

NoOp == [op |-> "mount", arg |-> 0, list |-> <<>>, draft |-> <<>>, undo |-> FALSE]

InitIn(sections) ==
    /\ st = InitialCells
    /\ now = 0
    /\ output = Derive(InitialCells, 0)
    /\ timer = FALSE
    /\ inflight = <<>>
    /\ clipboard = <<>>
    /\ download = <<>>
    /\ mounted = TRUE
    /\ last = NoOp
    /\ copies = <<>>
    /\ dirty = FALSE
    /\ steps = 0
    /\ section \in sections

Init == InitIn({"form"})

(***************************************************************************)
(* Handlers.  Handler is one event handler run to its re-render: the cells *)
(* become `new` after setter calls on the cells in `touched`, useMemo and  *)
(* the effect run, and the history variables record the invocation.        *)
(***************************************************************************)
Step(op, arg, list, draft, undo) ==
    [op |-> op, arg |-> arg, list |-> list, draft |-> draft, undo |-> undo]

\* the list editor a cell's control belongs to
Editor(cell) ==
    CASE cell \in {"actions", "actionDraft"} -> "actions"
      [] cell \in {"knowledgeDocs", "docDraft", "knowledgeEnabled"} -> "knowledgeDocs"
      [] cell \in {"customPhrases", "phraseDraft"} -> "customPhrases"
      [] cell \in {"starters", "starterTitle", "starterPrompt"} -> "starters"
      [] cell \in {"sampleQs", "sampleDraft"} -> "sampleQs"
      [] cell \in {"tags", "tagDraft"} -> "tags"
      [] OTHER -> "form"

\* a step of the explored session, taken at a control of `editor`
Session(editor) ==
    /\ section \in {"form", "session", editor}
    /\ IF section = "session" THEN steps < MaxSteps /\ steps' = steps + 1
                              ELSE steps' = steps
    /\ section' = section

Handler(editor, step, new, touched) ==
    /\ Session(editor)
    /\ mounted
    /\ st' = new
    /\ output' = Memo(st, new, touched, output, now)
    /\ timer' = CopiedEffect(st.copied, new.copied, timer)
    /\ last' = step
    /\ dirty' = (dirty \/ touched \cap DocCells /= {})
    /\ UNCHANGED <<now, inflight, clipboard, download, mounted, copies>>

\* an input, select or checkbox whose onChange is the cell's setter; onChange
\* fires with a value other than the one shown
SetCell(op, cell, v) ==
    /\ v /= st[cell]
    /\ Handler(Editor(cell), Step(op, 0, <<>>, <<>>, FALSE), [st EXCEPT ![cell] = v], {cell})

\* Basic
setName(v) == SetCell("setName", "name", v)
setLanguage(v) == SetCell("setLanguage", "language", v)
setDescription(v) == SetCell("setDescription", "description", v)
setInstructions(v) == SetCell("setInstructions", "instructions", v)

\* Persona & Style
setTone(v) == SetCell("setTone", "tone", v)
setEmoji(v) == SetCell("setEmoji", "emoji", v)
setLengthPref(v) == SetCell("setLengthPref", "lengthPref", v)

\* Built-in Tools
setToolWeb(v) == SetCell("setToolWeb", "toolWeb", v)
setToolCode(v) == SetCell("setToolCode", "toolCode", v)
setToolRetrieval(v) == SetCell("setToolRetrieval", "toolRetrieval", v)
setToolImage(v) == SetCell("setToolImage", "toolImage", v)
setToolVision(v) == SetCell("setToolVision", "toolVision", v)

\* Knowledge, Memory & Safety
setKnowledgeEnabled(v) == SetCell("setKnowledgeEnabled", "knowledgeEnabled", v)
setMemoryEnabled(v) == SetCell("setMemoryEnabled", "memoryEnabled", v)
\* scope and retention are rendered only while memory is enabled
setMemoryScope(v) == st.memoryEnabled /\ SetCell("setMemoryScope", "memoryScope", v)
setRetention(v) == st.memoryEnabled /\ SetCell("setRetention", "retention", v)
setJailbreakDefense(v) == SetCell("setJailbreakDefense", "jailbreakDefense", v)
setBlockDisallowed(v) == SetCell("setBlockDisallowed", "blockDisallowed", v)
setPiiRedaction(v) == SetCell("setPiiRedaction", "piiRedaction", v)

\* the draft inputs of the text-valued lists
setDocDraft(v) == st.knowledgeEnabled /\ SetCell("setDocDraft", "docDraft", v)
setPhraseDraft(v) == SetCell("setPhraseDraft", "phraseDraft", v)
setStarterTitle(v) == SetCell("setStarterTitle", "starterTitle", v)
setStarterPrompt(v) == SetCell("setStarterPrompt", "starterPrompt", v)
setSampleDraft(v) == SetCell("setSampleDraft", "sampleDraft", v)
setTagDraft(v) == SetCell("setTagDraft", "tagDraft", v)

\* the action form: setActionDraft(a => ({...a, ...}))
HasAuth(a) == "auth" \in DOMAIN a
WithAuth(a, auth) == IF HasAuth(a) THEN [a EXCEPT !.auth = auth] ELSE a @@ [auth |-> auth]
\* {...x, key: v} on an auth object
AuthWith(x, key, v) == IF key \in DOMAIN x THEN [x EXCEPT ![key] = v] ELSE x @@ (key :> v)
\* a.auth || fallback
AuthOr(a, fallback) == IF HasAuth(a) THEN a.auth ELSE fallback

SetActionDraft(op, shown, v, new) ==
    /\ v /= shown
    /\ Handler("actions", Step(op, 0, <<>>, <<>>, FALSE), [st EXCEPT !.actionDraft = new],
               {"actionDraft"})

setActionName(v) ==
    SetActionDraft("setActionName", st.actionDraft.name, v,
                   [st.actionDraft EXCEPT !.name = v])
setActionType(v) ==
    SetActionDraft("setActionType", st.actionDraft.type, v,
                   [st.actionDraft EXCEPT !.type = v])
setActionSpec(v) ==
    SetActionDraft("setActionSpec", st.actionDraft.specUrlOrInline, v,
                   [st.actionDraft EXCEPT !.specUrlOrInline = v])
\* the select shows actionDraft.auth?.type || "none"
setActionAuthType(v) ==
    SetActionDraft("setActionAuthType", AuthOr(st.actionDraft, [type |-> "none"]).type, v,
                   WithAuth(st.actionDraft,
                            AuthWith(AuthOr(st.actionDraft, <<>>), "type", v)))
\* the input shows actionDraft.auth?.instructions || ""
setActionAuthInstructions(v) ==
    SetActionDraft("setActionAuthInstructions",
                   LET x == AuthOr(st.actionDraft, [type |-> "none"])
                   IN  IF "instructions" \in DOMAIN x THEN x.instructions ELSE <<>>,
                   v,
                   WithAuth(st.actionDraft,
                            AuthWith(AuthOr(st.actionDraft, [type |-> "none"]),
                                     "instructions", v)))

(***************************************************************************)
(* Mutators.                                                               *)
(***************************************************************************)
\* prev.filter((_, idx) => idx !== i), idx counted from 0 (at: the index of Head)
RECURSIVE FilterFrom(_, _, _)
FilterFrom(s, i, at) ==
    IF s = <<>> THEN <<>>
    ELSE (IF at /= i THEN <<Head(s)>> ELSE <<>>) \o FilterFrom(Tail(s), i, at + 1)

FilterOutOneBased(s, i) == FilterFrom(s, i, 1)
FilterOut(s, i) == FilterFrom(s, i, 0)

\* [...prev, x]
SpreadAppendPrepends(prev, x) == <<x>> \o prev
SpreadAppend(prev, x) == Append(prev, x)

\* the guard of the four single-text adds: !draft.trim()
TrivialTextAcceptsBlank(draft) == Falsy(draft)
TrivialText(draft) == Falsy(Trim(draft))

\* the body the four single-text adds share: guard, append of the trimmed
\* draft, reset of the draft
AddTextKeepsDraft(op, cell, draftCell) ==
    IF TrivialText(st[draftCell])
    THEN Handler(cell, Step(op, 0, st[cell], st[draftCell], FALSE), st, {})
    ELSE /\ Len(st[cell]) < MaxLen
         /\ Handler(cell, Step(op, 0, st[cell], st[draftCell], FALSE),
                    [st EXCEPT ![cell] = SpreadAppend(@, Trim(st[draftCell]))],
                    {cell})
AddText(op, cell, draftCell) ==
    IF TrivialText(st[draftCell])
    THEN Handler(cell, Step(op, 0, st[cell], st[draftCell], FALSE), st, {})
    ELSE /\ Len(st[cell]) < MaxLen
         /\ Handler(cell, Step(op, 0, st[cell], st[draftCell], FALSE),
                    [st EXCEPT ![cell] = SpreadAppend(@, Trim(st[draftCell])),
                               ![draftCell] = <<>>],
                    {cell, draftCell})

\* the body the six removes share
RemoveAtEveryList(op, addOp, cell, i) ==
    LET undo == last.op = addOp /\ Len(st[cell]) = Len(last.list) + 1 /\ i = Len(last.list)
    IN  Handler(cell, Step(op, i, IF undo THEN last.list ELSE <<>>,
                           IF undo THEN last.draft ELSE <<>>, undo),
                [c \in DOMAIN st |-> IF c \in ListCells THEN FilterOut(st[c], i) ELSE st[c]],
                ListCells)
RemoveAt(op, addOp, cell, i) ==
    LET undo == last.op = addOp /\ Len(st[cell]) = Len(last.list) + 1 /\ i = Len(last.list)
    IN  Handler(cell, Step(op, i, IF undo THEN last.list ELSE <<>>,
                           IF undo THEN last.draft ELSE <<>>, undo),
                [st EXCEPT ![cell] = FilterOut(@, i)], {cell})

addAction ==
    IF Falsy(Trim(st.actionDraft.name))
    THEN Handler("actions", Step("addAction", 0, st.actions, st.actionDraft, FALSE), st, {})
    ELSE /\ Len(st.actions) < MaxActions
         /\ Handler("actions", Step("addAction", 0, st.actions, st.actionDraft, FALSE),
                    [st EXCEPT !.actions = SpreadAppend(@, st.actionDraft),
                               !.actionDraft = EmptyActionDraft],
                    {"actions", "actionDraft"})
removeAction(i) == RemoveAt("removeAction", "addAction", "actions", i)

\* the document editor is rendered only while knowledge is enabled
addDoc == st.knowledgeEnabled /\ AddText("addDoc", "knowledgeDocs", "docDraft")
removeDoc(i) == st.knowledgeEnabled /\ RemoveAt("removeDoc", "addDoc", "knowledgeDocs", i)

addPhrase == AddText("addPhrase", "customPhrases", "phraseDraft")
removePhrase(i) == RemoveAt("removePhrase", "addPhrase", "customPhrases", i)

StarterDraft == [title |-> st.starterTitle, prompt |-> st.starterPrompt]
addStarter ==
    IF Falsy(Trim(st.starterTitle)) \/ Falsy(Trim(st.starterPrompt))
    THEN Handler("starters", Step("addStarter", 0, st.starters, StarterDraft, FALSE), st, {})
    ELSE /\ Len(st.starters) < MaxLen
         /\ Handler("starters", Step("addStarter", 0, st.starters, StarterDraft, FALSE),
                    [st EXCEPT !.starters =
                                   SpreadAppend(@, [title |-> Trim(st.starterTitle),
                                                    prompt |-> Trim(st.starterPrompt)]),
                               !.starterTitle = <<>>,
                               !.starterPrompt = <<>>],
                    {"starters", "starterTitle", "starterPrompt"})
removeStarter(i) == RemoveAt("removeStarter", "addStarter", "starters", i)

addSample == AddText("addSample", "sampleQs", "sampleDraft")
removeSample(i) == RemoveAt("removeSample", "addSample", "sampleQs", i)

addTag == AddText("addTag", "tags", "tagDraft")
removeTag(i) == RemoveAt("removeTag", "addTag", "tags", i)

(***************************************************************************)
(* Export, the toast timer, the clock and teardown.                        *)
(***************************************************************************)
Export(op) == Step(op, 0, <<>>, <<>>, FALSE)

\* copyJSON up to its await: the text is built from the memoised output and
\* handed to the clipboard
copyJSON ==
    /\ Session("form")
    /\ mounted
    /\ Len(inflight) < MaxInflight
    /\ inflight' = Append(inflight, Stringify(output))
    /\ copies' = LET c == [text |-> Stringify(output), at |-> now, edited |-> dirty]
                 IN  IF Len(copies) = 2 THEN <<copies[2], c>> ELSE Append(copies, c)
    /\ dirty' = FALSE
    /\ last' = Export("copyJSON")
    /\ UNCHANGED <<st, output, now, timer, clipboard, download, mounted>>

\* the write completes and copyJSON resumes with setCopied(true); a setter of
\* an unmounted component changes nothing
writeTextResolves ==
    /\ Session("form")
    /\ inflight /= <<>>
    /\ inflight' = Tail(inflight)
    /\ clipboard' = Head(inflight)
    /\ IF mounted
       THEN /\ st' = [st EXCEPT !.copied = TRUE]
            /\ output' = Memo(st, st', {"copied"}, output, now)
            /\ timer' = CopiedEffect(st.copied, TRUE, timer)
       ELSE UNCHANGED <<st, output, timer>>
    /\ last' = Export("writeTextResolves")
    /\ UNCHANGED <<now, download, mounted, copies, dirty>>

\* the write fails: the rejection is not caught and setCopied is not reached
writeTextRejects ==
    /\ Session("form")
    /\ inflight /= <<>>
    /\ inflight' = Tail(inflight)
    /\ last' = Export("writeTextRejects")
    /\ UNCHANGED <<st, output, now, timer, clipboard, download, mounted, copies, dirty>>

\* the timeout armed by the effect runs setCopied(false)
timerFires ==
    /\ Session("form")
    /\ timer
    /\ mounted
    /\ st' = [st EXCEPT !.copied = FALSE]
    /\ output' = Memo(st, st', {"copied"}, output, now)
    /\ timer' = CopiedEffect(st.copied, FALSE, FALSE)
    /\ last' = Export("timerFires")
    /\ UNCHANGED <<now, inflight, clipboard, download, mounted, copies, dirty>>

FallbackFileName == <<"c", "u", "s", "t", "o", "m", "-", "g", "p", "t">>
JsonExtension == <<".", "j", "s", "o", "n">>

downloadJSON ==
    /\ Session("form")
    /\ mounted
    /\ download' = [file |-> (IF Falsy(st.name) THEN FallbackFileName ELSE st.name)
                             \o JsonExtension,
                    text |-> Stringify(output)]
    /\ last' = Export("downloadJSON")
    /\ UNCHANGED <<st, output, now, timer, inflight, clipboard, mounted, copies, dirty>>

\* time passes
tick ==
    /\ Session("form")
    /\ now < MaxClock
    /\ now' = now + 1
    /\ last' = Export("tick")
    /\ UNCHANGED <<st, output, timer, inflight, clipboard, download, mounted, copies, dirty>>

\* teardown: the effect's cleanup clears a pending timeout
unmount ==
    /\ Session("form")
    /\ mounted
    /\ mounted' = FALSE
    /\ timer' = FALSE
    /\ last' = Export("unmount")
    /\ UNCHANGED <<st, output, now, inflight, clipboard, download, copies, dirty>>

(***************************************************************************)
(* Next-state relations.  The handlers of one form section, then the       *)
(* specifications: the whole component (Spec), and the explorations of it  *)
(* that the properties are checked under.                                  *)
(***************************************************************************)
\* the indices a remove is invoked with: every position, and both sides out of range
RemoveIndices(cell) == -1..(Len(st[cell]) + 1)

BasicSection ==
    \/ \E v \in BasicTexts : setName(v)
    \/ \E v \in BasicTexts : setLanguage(v)
    \/ \E v \in BasicTexts : setDescription(v)
    \/ \E v \in BasicTexts : setInstructions(v)

PersonaSection ==
    \/ \E v \in ToneOptions : setTone(v)
    \/ \E v \in EmojiOptions : setEmoji(v)
    \/ \E v \in LengthOptions : setLengthPref(v)

ToolsSection ==
    \/ \E v \in BOOLEAN : setToolWeb(v)
    \/ \E v \in BOOLEAN : setToolCode(v)
    \/ \E v \in BOOLEAN : setToolRetrieval(v)
    \/ \E v \in BOOLEAN : setToolImage(v)
    \/ \E v \in BOOLEAN : setToolVision(v)

\* the action editor without the Auth Instructions input, names typed from `names`
ActionsEditor(names) ==
    \/ \E v \in names \cup {<<>>} : setActionName(v)
    \/ \E v \in ActionTypes : setActionType(v)
    \/ \E v \in ActionSpecs : setActionSpec(v)
    \/ \E v \in ActionAuthTypes : setActionAuthType(v)
    \/ addAction
    \/ \E i \in RemoveIndices("actions") : removeAction(i)

ActionsSection ==
    \/ ActionsEditor(ActionNames \cup UntrimmedActionNames)
    \/ \E v \in ActionAuthInstructions : setActionAuthInstructions(v)

DocsSection ==
    \/ \E v \in BOOLEAN : setKnowledgeEnabled(v)
    \/ \E v \in DraftTexts : setDocDraft(v)
    \/ addDoc
    \/ \E i \in RemoveIndices("knowledgeDocs") : removeDoc(i)

MemorySection(texts) ==
    \/ \E v \in BOOLEAN : setMemoryEnabled(v)
    \/ \E v \in ScopeOptions : setMemoryScope(v)
    \/ \E v \in texts : setRetention(v)

SafetySection ==
    \/ \E v \in BOOLEAN : setJailbreakDefense(v)
    \/ \E v \in BOOLEAN : setBlockDisallowed(v)
    \/ \E v \in BOOLEAN : setPiiRedaction(v)

PhrasesSection ==
    \/ \E v \in DraftTexts : setPhraseDraft(v)
    \/ addPhrase
    \/ \E i \in RemoveIndices("customPhrases") : removePhrase(i)

StartersSection ==
    \/ \E v \in DraftTexts : setStarterTitle(v)
    \/ \E v \in DraftTexts : setStarterPrompt(v)
    \/ addStarter
    \/ \E i \in RemoveIndices("starters") : removeStarter(i)

SamplesSection ==
    \/ \E v \in DraftTexts : setSampleDraft(v)
    \/ addSample
    \/ \E i \in RemoveIndices("sampleQs") : removeSample(i)

TagsSection ==
    \/ \E v \in DraftTexts : setTagDraft(v)
    \/ addTag
    \/ \E i \in RemoveIndices("tags") : removeTag(i)

ExportSection ==
    \/ copyJSON
    \/ writeTextResolves
    \/ writeTextRejects
    \/ timerFires
    \/ downloadJSON
    \/ unmount

\* the handlers that set cells
FieldHandlers(retentionTexts) ==
    \/ BasicSection
    \/ PersonaSection
    \/ ToolsSection
    \/ ActionsSection
    \/ DocsSection
    \/ MemorySection(retentionTexts)
    \/ SafetySection
    \/ PhrasesSection
    \/ StartersSection
    \/ SamplesSection
    \/ TagsSection

\* the component
Next == FieldHandlers(RetentionTexts) \/ ExportSection \/ tick
Spec == Init /\ [][Next]_vars

\* sessions of at most MaxSteps steps that set cells and export
SessionNext == FieldHandlers(RetentionSamples) \/ copyJSON \/ downloadJSON \/ tick
SpecSession == InitIn({"session"}) /\ [][SessionNext]_vars

\* sessions in the Built-in Tools section
ToolsNext == ToolsSection \/ tick
SpecTools == Init /\ [][ToolsNext]_vars

\* sessions in the memory controls, over every retention text
MemoryNext == MemorySection(RetentionTexts)
SpecMemory == Init /\ [][MemoryNext]_vars

\* sessions in one list editor, the editor chosen at the start
ListsNext ==
    \/ ActionsEditor(ActionNames)
    \/ DocsSection
    \/ PhrasesSection
    \/ StartersSection
    \/ SamplesSection
    \/ TagsSection
InitLists == InitIn(ListCells)
SpecLists == InitLists /\ [][ListsNext]_vars

\* sessions that export, with one tool toggle as the field edit
ExportNext ==
    \/ copyJSON
    \/ writeTextResolves
    \/ writeTextRejects
    \/ timerFires
    \/ unmount
    \/ \E v \in BOOLEAN : setToolCode(v)
    \/ tick
SpecExport == Init /\ [][ExportNext]_vars
\* the browser runs a due timeout
LiveExport == SpecExport /\ WF_vars(timerFires)

(***************************************************************************)
(* Properties.                                                             *)
(***************************************************************************)
\* the canonical order of the built-in tools, and each tool's flag
ToolOrder == <<"web", "code", "retrieval", "image", "vision">>
Rank(t) == CHOOSE i \in 1..Len(ToolOrder) : ToolOrder[i] = t
ToolFlag(t) ==
    CASE t = "web" -> st.toolWeb
      [] t = "code" -> st.toolCode
      [] t = "retrieval" -> st.toolRetrieval
      [] t = "image" -> st.toolImage
      [] t = "vision" -> st.toolVision

\* C1: in every reachable state the document's builtInTools holds exactly the
\* enabled tools, each once, in the order web, code, retrieval, image, vision,
\* whatever the order of the toggles; with web, code and vision enabled it is
\* <<web, code, vision>>.
C1_BuiltInToolsCanonical ==
    LET b == output.builtInTools
    IN  /\ \A i \in 1..Len(ToolOrder) :
               (\E j \in 1..Len(b) : b[j] = ToolOrder[i]) <=> ToolFlag(ToolOrder[i])
        /\ \A i, j \in 1..Len(b) : i < j => Rank(b[i]) < Rank(b[j])
        /\ (st.toolWeb /\ st.toolCode /\ st.toolVision /\ ~st.toolRetrieval /\ ~st.toolImage)
               => b = <<"web", "code", "vision">>

\* vision was enabled first and code last, and the document lists code before vision
C1_Witness ==
    /\ last.op = "setToolCode"
    /\ st.toolWeb /\ st.toolCode /\ st.toolVision /\ ~st.toolRetrieval /\ ~st.toolImage
    /\ output.builtInTools = <<"web", "code", "vision">>

\* the document the current cells derive to, stamped as the memoised one is
Fresh == [Derive(st, 0) EXCEPT !.createdAt = output.createdAt]

\* C2: after any sequence of cell-setting handlers the memoised document, which
\* the preview and both exports read, equals the derivation of the current cells
\* in every field other than createdAt, and so do the texts just exported.
C2_NoStaleOutput ==
    /\ output = Fresh
    /\ last.op = "copyJSON" => inflight[Len(inflight)] = Stringify(Fresh)
    /\ last.op = "downloadJSON" => download.text = Stringify(Fresh)

\* a name was typed and the file then downloaded carries it
C2_Witness ==
    /\ last.op = "downloadJSON"
    /\ st.name = <<"x">>
    /\ download.text.name = <<"x">>
    /\ download.file = <<"x", ".", "j", "s", "o", "n">>

AddOps == {"addAction", "addDoc", "addPhrase", "addStarter", "addSample", "addTag"}
RemoveOps ==
    {"removeAction", "removeDoc", "removePhrase", "removeStarter", "removeSample",
     "removeTag"}

\* the list cell a mutator works on, and that list in a document
ListCell(op) ==
    CASE op \in {"addAction", "removeAction"} -> "actions"
      [] op \in {"addDoc", "removeDoc"} -> "knowledgeDocs"
      [] op \in {"addPhrase", "removePhrase"} -> "customPhrases"
      [] op \in {"addStarter", "removeStarter"} -> "starters"
      [] op \in {"addSample", "removeSample"} -> "sampleQs"
      [] op \in {"addTag", "removeTag"} -> "tags"
DocList(doc, cell) ==
    CASE cell = "actions" -> doc.customActions
      [] cell = "knowledgeDocs" -> doc.knowledge.documents
      [] cell = "customPhrases" -> doc.safety.customDisallowedPhrases
      [] cell = "starters" -> doc.conversationStarters
      [] cell = "sampleQs" -> doc.sampleQuestions
      [] cell = "tags" -> doc.tags

\* the draft an add reads, in the shape the history records it
DraftOf(op) ==
    CASE op = "addAction" -> st.actionDraft
      [] op = "addDoc" -> st.docDraft
      [] op = "addPhrase" -> st.phraseDraft
      [] op = "addStarter" -> [title |-> st.starterTitle, prompt |-> st.starterPrompt]
      [] op = "addSample" -> st.sampleDraft
      [] op = "addTag" -> st.tagDraft

\* a text that is empty or white space only
Blank(s) == \A i \in 1..Len(s) : s[i] \in {" ", "\t", "\n"}

\* a draft the specification calls trivial
TrivialDraft(op, d) ==
    CASE op = "addAction" -> Blank(d.name)
      [] op = "addStarter" -> Blank(d.title) \/ Blank(d.prompt)
      [] OTHER -> Blank(d)

\* C3: for each of the six lists, an add whose draft is trivial leaves the list
\* and the draft input as it found them.
C3_TrivialAddIsNoOp ==
    (last.op \in AddOps /\ TrivialDraft(last.op, last.draft))
        => /\ st[ListCell(last.op)] = last.list
           /\ DraftOf(last.op) = last.draft

\* Add Starter was pressed with a title and a white-space prompt
C3_Witness ==
    /\ last.op = "addStarter"
    /\ last.draft = [title |-> <<"a">>, prompt |-> <<" ">>]
    /\ st.starters = last.list
    /\ st.starterPrompt = <<" ">>

\* the draft input of an add, empty
DraftIsReset(op) ==
    CASE op = "addAction" ->
             /\ st.actionDraft.name = <<>>
             /\ st.actionDraft.type = "openapi"
             /\ st.actionDraft.specUrlOrInline = <<>>
             /\ "auth" \notin DOMAIN st.actionDraft
      [] op = "addStarter" -> st.starterTitle = <<>> /\ st.starterPrompt = <<>>
      [] OTHER -> DraftOf(op) = <<>>

\* C4: for each of the six lists, an add whose draft passes validation grows the
\* list by one element at the end, keeps every earlier element in place and
\* resets the draft input (for actions: empty name, type openapi, empty spec, no auth).
C4_AddAppendsAndResets ==
    (last.op \in AddOps /\ ~TrivialDraft(last.op, last.draft))
        => LET now_ == st[ListCell(last.op)]
           IN  /\ Len(now_) = Len(last.list) + 1
               /\ \A i \in 1..Len(last.list) : now_[i] = last.list[i]
               /\ DraftIsReset(last.op)

\* a second action was added from a form with a type, a spec and an auth chosen
C4_Witness ==
    /\ last.op = "addAction"
    /\ last.draft.type = "webhook"
    /\ last.draft.specUrlOrInline = <<"u">>
    /\ "auth" \in DOMAIN last.draft
    /\ Len(last.list) = 1
    /\ Len(st.actions) = 2
    /\ st.actions[2].type = "webhook"

\* list L without the element at 0-based position i; L itself when i is out of range
RemovedAt(L, i) ==
    IF 0 <= i /\ i < Len(L)
    THEN [j \in 1..(Len(L) - 1) |-> IF j <= i THEN L[j] ELSE L[j + 1]]
    ELSE L

\* C5: for each of the six lists, removeAt(i) with 0 <= i < len removes exactly
\* the element at position i and keeps the others in order; with any other i it
\* leaves the list as it is; the re-derived document holds the resulting list.
C5_RemoveAtRemovesOne ==
    [][last'.op \in RemoveOps
          => LET cell == ListCell(last'.op)
             IN  /\ st'[cell] = RemovedAt(st[cell], last'.arg)
                 /\ DocList(output', cell) = RemovedAt(st[cell], last'.arg)]_vars

\* the middle one of three tags was removed
C5_Witness ==
    /\ last.op = "removeTag"
    /\ last.arg = 1
    /\ Len(st.tags) = 2
    /\ st.tags[1] /= st.tags[2]
    /\ output.tags = st.tags

\* C6: memory.dataRetentionDays is 0 when the retention text is not a number, 0
\* when it is a negative number, and the number otherwise; "abc" gives 0, "-5"
\* gives 0 and "30" gives 30.
C6_RetentionCoercion ==
    LET days == output.memory.dataRetentionDays
        n == ToNumber(st.retention)
    IN  /\ n.kind = "nan" => days = Zero
        /\ IsNegative(n) => days = Zero
        /\ (n.kind /= "nan" /\ ~IsNegative(n))
               => /\ days.kind = n.kind
                  /\ days.m = n.m
                  /\ days.k = n.k
                  /\ ~IsNegative(days)
        /\ st.retention = <<"a", "b", "c">> => days = Zero
        /\ st.retention = <<"-", "5">> => days = Zero
        /\ st.retention = <<"3", "0">> => days = [kind |-> "num", neg |-> FALSE, m |-> 30, k |-> 0]

\* "-5" was typed and the document says 0 days
C6_Witness ==
    /\ last.op = "setRetention"
    /\ st.retention = <<"-", "5">>
    /\ output.memory.dataRetentionDays = Zero

\* a text an <input type="number"> hands to onChange: empty, or a valid
\* floating-point number without exponent
NumberInputText(s) ==
    \/ s = <<>>
    \/ LET body == IF s[1] = "-" THEN Tail(s) ELSE s
           dots == {i \in 1..Len(body) : body[i] = "."}
       IN  /\ body /= <<>>
           /\ \A i \in 1..Len(body) : body[i] \in Digits \cup {"."}
           /\ Cardinality(dots) <= 1
           /\ body[Len(body)] /= "."

\* C7: for every text the retention input can hold, memory.dataRetentionDays is
\* a non-negative integer.
C7_RetentionDaysIsNonNegativeInteger ==
    NumberInputText(st.retention) => IsNonNegativeInteger(output.memory.dataRetentionDays)

\* C8 as stated: two consecutive Copy JSON actions with no field edit between
\* them and the clock advancing between them export documents that differ.
C8_ConsecutiveCopiesDiffer ==
    (Len(copies) = 2 /\ ~copies[2].edited /\ copies[2].at > copies[1].at)
        => copies[2].text /= copies[1].text

\* C8 amended: createdAt is the instant of the last derivation, and a derivation
\* happens only when a field changes: two consecutive Copy JSON actions with no
\* field edit between them export the same document, createdAt included, however
\* far the clock advanced; after a field edit the export is stamped no earlier
\* than the previous Copy JSON.
C8_CopiesWithoutEditAgree ==
    Len(copies) = 2
        => /\ ~copies[2].edited => copies[2].text = copies[1].text
           /\ copies[2].edited => copies[2].text.createdAt >= copies[1].at

\* two Copy JSON actions, the clock advanced between them, no field edited
C8_Witness ==
    /\ Len(copies) = 2
    /\ ~copies[2].edited
    /\ copies[2].at > copies[1].at
    /\ copies[2].text.createdAt < copies[2].at

\* the toast is on screen
Shown == mounted /\ st.copied

\* C9: the copied signal is set only by the completion of a clipboard write;
\* a timeout is pending exactly while the signal is shown (it is cancelled when
\* the signal changes or the component is torn down); and a shown signal is
\* always cleared again, whatever copies and edits happen meanwhile.
C9_CopiedIsTransient ==
    /\ [][(~st.copied /\ st'.copied) => last'.op = "writeTextResolves"]_vars
    /\ [](timer <=> Shown)
    /\ (Shown ~> ~Shown)

\* the signal is shown, a field was edited since, and another write is in flight
C9_Witness ==
    /\ Shown
    /\ timer
    /\ inflight /= <<>>
    /\ last.op = "setToolCode"

\* C10: for each list, a growing add followed by removeAt at the index of the
\* added element gives back the list the add found, in the cell and in the
\* document; adding the action Lookup/openapi to the empty list and removing at
\* 0 gives customActions = <<>>.
C10_AddThenRemoveRestores ==
    (last.op \in RemoveOps /\ last.undo)
        => /\ st[ListCell(last.op)] = last.list
           /\ DocList(output, ListCell(last.op)) = last.list

\* the action Lookup/openapi was added to the empty list and removed at 0
C10_Witness ==
    /\ last.op = "removeAction"
    /\ last.undo
    /\ last.arg = 0
    /\ last.draft = [name |-> <<"L", "o", "o", "k", "u", "p">>, type |-> "openapi",
                     specUrlOrInline |-> <<>>]
    /\ output.customActions = <<>>

\* JSON.parse of the tokens Stringify writes: an escaped string back to its
\* characters, a decimal literal to the number it denotes, null to null
UnescapeChar(c) ==
    CASE c = "n" -> "\n"
      [] c = "t" -> "\t"
      [] OTHER -> c

RECURSIVE Unescape(_)
Unescape(s) ==
    IF s = <<>> THEN <<>>
    ELSE IF Head(s) = "\\" /\ Len(s) >= 2
         THEN <<UnescapeChar(s[2])>> \o Unescape(SubSeq(s, 3, Len(s)))
         ELSE <<Head(s)>> \o Unescape(Tail(s))

ParseNumber(tok) == IF tok.kind = "literal" THEN ToNumber(tok.text) ELSE tok

ParseTexts(seq) == [i \in 1..Len(seq) |-> Unescape(seq[i])]

ParseAuth(x) == [k \in DOMAIN x |-> IF k = "instructions" THEN Unescape(x[k]) ELSE x[k]]

ParseAction(a) ==
    [k \in DOMAIN a |->
        CASE k = "auth" -> ParseAuth(a[k])
          [] k = "type" -> a[k]
          [] OTHER -> Unescape(a[k])]

Parse(json) ==
    [json EXCEPT
       !.name = Unescape(@), !.description = Unescape(@), !.instructions = Unescape(@),
       !.language = Unescape(@),
       !.customActions = [i \in 1..Len(@) |-> ParseAction(@[i])],
       !.knowledge.documents = ParseTexts(@),
       !.memory.dataRetentionDays = ParseNumber(@),
       !.safety.customDisallowedPhrases = ParseTexts(@),
       !.conversationStarters =
           [i \in 1..Len(@) |-> [title |-> Unescape(@[i].title),
                                 prompt |-> Unescape(@[i].prompt)]],
       !.sampleQuestions = ParseTexts(@),
       !.tags = ParseTexts(@)]

RoundTripButRetention ==
    [Parse(Stringify(output)) EXCEPT !.memory.dataRetentionDays = 0]
        = [output EXCEPT !.memory.dataRetentionDays = 0]

\* a text with no white space at either end
Trimmed(s) == s = <<>> \/ (s[1] \notin {" ", "\t", "\n"} /\ s[Len(s)] \notin {" ", "\t", "\n"})

\* every item of the five text-valued lists is stored trimmed
TextListsTrimmed ==
    /\ \A c \in {"knowledgeDocs", "customPhrases", "sampleQs", "tags"} :
           \A i \in 1..Len(st[c]) : Trimmed(st[c][i])
    /\ \A i \in 1..Len(st.starters) :
           Trimmed(st.starters[i].title) /\ Trimmed(st.starters[i].prompt)

\* C12: after any sequence of operations every string in documents, phrases,
\* sample questions and tags, the title and prompt of every starter, and the
\* name of every custom action has no leading or trailing white space.
C12_AddedValuesAreTrimmed ==
    /\ TextListsTrimmed
    /\ \A i \in 1..Len(st.actions) : Trimmed(st.actions[i].name)

\* C13: in every reachable state no list holds a trivial item: every document,
\* phrase, sample question and tag is non-blank, every starter has a non-blank
\* title and a non-blank prompt, and every custom action has a non-blank name.
C13_NoTrivialItems ==
    /\ \A c \in {"knowledgeDocs", "customPhrases", "sampleQs", "tags"} :
           \A i \in 1..Len(st[c]) : ~Blank(st[c][i])
    /\ \A i \in 1..Len(st.starters) :
           ~Blank(st.starters[i].title) /\ ~Blank(st.starters[i].prompt)
    /\ \A i \in 1..Len(st.actions) : ~Blank(st.actions[i].name)

\* the default starter was removed and two starters were added, the second
\* from a padded title
C13_Witness ==
    /\ last.op = "addStarter"
    /\ last.draft.title = <<" ", "b", " ">>
    /\ Len(st.starters) = 2
    /\ st.starters[1].title = <<"a">>
    /\ st.starters[2].title = <<"b">>

\* the cells a mutator may set: its list, and for an add the list's draft
DraftCells(cell) ==
    CASE cell = "actions" -> {"actionDraft"}
      [] cell = "knowledgeDocs" -> {"docDraft"}
      [] cell = "customPhrases" -> {"phraseDraft"}
      [] cell = "starters" -> {"starterTitle", "starterPrompt"}
      [] cell = "sampleQs" -> {"sampleDraft"}
      [] cell = "tags" -> {"tagDraft"}
OwnCells(op) ==
    {ListCell(op)} \cup (IF op \in AddOps THEN DraftCells(ListCell(op)) ELSE {})

\* a document with one list and createdAt blanked out
Masked(doc, cell) ==
    LET d == [doc EXCEPT !.createdAt = 0]
    IN  CASE cell = "actions" -> [d EXCEPT !.customActions = <<>>]
          [] cell = "knowledgeDocs" -> [d EXCEPT !.knowledge.documents = <<>>]
          [] cell = "customPhrases" -> [d EXCEPT !.safety.customDisallowedPhrases = <<>>]
          [] cell = "starters" -> [d EXCEPT !.conversationStarters = <<>>]
          [] cell = "sampleQs" -> [d EXCEPT !.sampleQuestions = <<>>]
          [] cell = "tags" -> [d EXCEPT !.tags = <<>>]

\* C14: an add or a removeAt on one list changes at most that list and, for an
\* add, that list's own draft: every other cell (the other five lists, their
\* drafts, the scalar fields, persona choices, tool flags, knowledge, memory and
\* safety flags, the retention text) keeps its value, and the derived document
\* differs from the previous one in that list and createdAt only.
C14_ListFieldsIndependent ==
    [][last'.op \in AddOps \cup RemoveOps
          => /\ \A c \in DOMAIN st \ OwnCells(last'.op) : st'[c] = st[c]
             /\ Masked(output', ListCell(last'.op)) = Masked(output, ListCell(last'.op))]_vars

\* a phrase was added: the phrase list grew and its draft was reset while the
\* default starter, sample question and tag are still in the document
C14_Witness ==
    /\ last.op = "addPhrase"
    /\ Len(st.customPhrases) = Len(last.list) + 1
    /\ st.phraseDraft = <<>>
    /\ output.safety.customDisallowedPhrases = st.customPhrases
    /\ output.conversationStarters = defaultConfig.conversationStarters
    /\ output.sampleQuestions = defaultConfig.sampleQuestions
    /\ output.tags = defaultConfig.tags

====
